---- MODULE Spec2Model ----
(***************************************************************************)
(* Model of the ontology reasoning engine of lexikon                       *)
(* (backend/services/reasoning.py, class ReasoningEngine) together with    *)
(* the term_relations table it reads.                                      *)
(*                                                                         *)
(* Confidences are Python floats in the source.  Here they are fixed-point *)
(* integers counting millionths (ONE = 1.0); a product is truncated to a   *)
(* millionth, which is exact for every product of at most six decimals.    *)
(***************************************************************************)
EXTENDS Integers, Sequences, FiniteSets, TLC

VARIABLES store, pc, request, inferred, paths, reads, response, calls, api

vars == <<store, pc, request, inferred, paths, reads, response, calls, api>>

(***************************************************************************)
(* Bounds of the model.                                                    *)
(***************************************************************************)
MaxEdges == 2
MaxDepth == 2
MaxGraphEdges == 4
MaxIds == 3

(***************************************************************************)
(* Input sets.                                                             *)
(***************************************************************************)
ONE == 1000000

Terms == {"A", "B", "C"}

RelationTypes == {"broader", "narrower", "part_of", "has_part", "equivalent", "related"}

Relation(source_term_id, target_term_id, relation_type, confidence) ==
  [source_term_id |-> source_term_id, target_term_id |-> target_term_id,
   relation_type |-> relation_type, confidence |-> confidence]

\* the relations a client may create: every relation type, chains, cycles,
\* a self-loop, and confidences 1.0, 0.9, 0.6 and 0.0006
RelationInputs ==
  { Relation("A", "B", "broader", 900000),
    Relation("B", "C", "broader", 900000),
    Relation("B", "A", "narrower", 600000),
    Relation("A", "C", "part_of", 600),
    Relation("C", "B", "has_part", 1000000),
    Relation("A", "B", "equivalent", 900000),
    Relation("B", "A", "equivalent", 1000000),
    Relation("A", "A", "equivalent", 1000000),
    Relation("B", "C", "equivalent", 900000),
    Relation("B", "A", "related", 900000) }

\* 0.0, 0.6561 and the default 0.75
Thresholds == {0, 656100, 750000}

\* 0.0 and the default 0.75
StepThresholds == {0, 750000}

RuleNames == {"transitive", "symmetric", "equivalence", "inverse"}

RegistryOrder == <<"transitive", "symmetric", "equivalence", "inverse">>

\* a rule name of the module docstring that the registry does not hold
UnknownRuleNames == {"hierarchy"}

\* rule lists that carry an unregistered name, and the single transitive rule
WideRuleLists ==
  { <<"hierarchy">>, <<"transitive", "hierarchy">>,
    <<"symmetric", "hierarchy", "inverse">>,
    <<"equivalence", "hierarchy", "transitive">>, <<"transitive">> }

\* a negative depth and the default depth of the signature
WideDepths == {-1, 3}

\* -0.1, 0.5 and 1.1
WideThresholds == {-100000, 500000, 1100000}

\* the rule lists a caller may pass: none, one rule, two different rules in
\* either order, and all four rules in the order of the registry
RuleLists ==
  {<<>>} \cup {<<r>> : r \in RuleNames}
         \cup {p \in {<<r, q>> : r \in RuleNames, q \in RuleNames} : p[1] # p[2]}
         \cup {RegistryOrder}

(***************************************************************************)
(* Fixed-point arithmetic standing for the float operations of the source. *)
(***************************************************************************)
CONFIDENCE_DECAY == 900000

\* a * b for fixed-point a, b in 0..ONE, truncated to a millionth; the product
\* is formed from the thousands and units of a and b to stay within 32 bits
Mul(a, b) ==
  LET a1 == a \div 1000
      a0 == a % 1000
      b1 == b \div 1000
      b0 == b % 1000
  IN  a1 * b1 + ((a1 * b0 + a0 * b1) * 1000 + a0 * b0) \div ONE

\* round(x, 3): nearest multiple of 0.001, ties to even
round3(x) ==
  LET q == x \div 1000
      r == x % 1000
  IN  IF r > 500 \/ (r = 500 /\ q % 2 = 1) THEN (q + 1) * 1000 ELSE q * 1000

(***************************************************************************)
(* The four rules.  A rule takes the call context                          *)
(*   c = [store, term_id, max_depth, confidence_threshold]                 *)
(* and the traversal state st = [inferred, visited, paths, reads]; visited *)
(* is the one set object that infer_relations hands to every rule.  paths  *)
(* and reads are history kept beside the code's data: paths[n] is the      *)
(* sequence of stored relations that inferred[n] was built from, and reads *)
(* lists the queries sent to the store, in order.                          *)
(***************************************************************************)
\* a set of followed types that also holds equivalent
transitive_relations_wide ==
  {"broader", "narrower", "part_of", "has_part", "related", "equivalent"}

transitive_relations == {"broader", "narrower", "part_of", "has_part", "related"}

symmetric_relations == {"equivalent", "related"}

\* a mapping table whose last row maps has_part to itself
inverse_mapping_slip ==
  [broader |-> "narrower", narrower |-> "broader",
   part_of |-> "has_part", has_part |-> "has_part"]

inverse_mapping ==
  [broader |-> "narrower", narrower |-> "broader",
   part_of |-> "has_part", has_part |-> "part_of"]

Candidate(term_id, target, type, confidence, rule, depth) ==
  [source_term_id |-> term_id, target_term_id |-> target, relation_type |-> type,
   confidence |-> confidence, rule |-> rule, depth |-> depth]

\* inferred.append(item)
Emit(st, item, path) ==
  [st EXCEPT !.inferred = Append(@, item), !.paths = Append(@, path)]

\* one self.db.query(TermRelation)...all() issued by `rule` for term_id, at
\* `depth` and with the confidence accumulated on the way to term_id
Query(st, rule, term_id, depth, accumulated_confidence) ==
  [st EXCEPT !.reads = Append(@, [rule |-> rule, term_id |-> term_id, depth |-> depth,
                                  accumulated_confidence |-> accumulated_confidence])]

\* a query that drops the filter on the source term
outgoing_unfiltered(db, id, types) ==
  SelectSeq(db, LAMBDA r : r.relation_type \in types)

\* db.query(TermRelation).filter(source_term_id == id, relation_type in types).all()
outgoing(db, id, types) ==
  SelectSeq(db, LAMBDA r : r.source_term_id = id /\ r.relation_type \in types)

\* db.query(TermRelation).filter(target_term_id == id, relation_type in types).all()
incoming(db, id, types) ==
  SelectSeq(db, LAMBDA r : r.target_term_id = id /\ r.relation_type \in types)

\* a step that forgets the confidence accumulated so far
Decayed_restart(accumulated_confidence, confidence) ==
  Mul(confidence, CONFIDENCE_DECAY)

\* accumulated_confidence * rel.confidence * self.CONFIDENCE_DECAY
Decayed(accumulated_confidence, confidence) ==
  Mul(Mul(accumulated_confidence, confidence), CONFIDENCE_DECAY)

\* the test that admits a transitive candidate
TransitiveAdmits(new_confidence, confidence_threshold) ==
  new_confidence >= confidence_threshold

\* a depth test that lets one more level through
TooDeep_late(depth, max_depth) == depth > max_depth + 1

\* depth > max_depth
TooDeep(depth, max_depth) == depth > max_depth

\* a visited set that is never added to
Visit_forgotten(visited, current_id) == visited

\* visited.add(current_id)
Visit(visited, current_id) == visited \cup {current_id}

RECURSIVE traverse(_, _, _, _, _, _)
RECURSIVE traverse_loop(_, _, _, _, _, _, _)

\* a traversal that enters a term whether or not it was visited
traverse_reentering(c, current_id, depth, accumulated_confidence, path, st) ==
  IF TooDeep(depth, c.max_depth) THEN st
  ELSE traverse_loop(c, outgoing(c.store, current_id, transitive_relations), 1,
                     depth, accumulated_confidence, path,
                     Query([st EXCEPT !.visited = Visit(@, current_id)],
                           "transitive", current_id, depth, accumulated_confidence))

traverse(c, current_id, depth, accumulated_confidence, path, st) ==
  IF TooDeep(depth, c.max_depth) \/ current_id \in st.visited THEN st
  ELSE traverse_loop(c, outgoing(c.store, current_id, transitive_relations), 1,
                     depth, accumulated_confidence, path,
                     Query([st EXCEPT !.visited = Visit(@, current_id)],
                           "transitive", current_id, depth, accumulated_confidence))

traverse_loop(c, relations, i, depth, accumulated_confidence, path, st) ==
  IF i > Len(relations) THEN st
  ELSE LET rel == relations[i]
           new_confidence == Decayed(accumulated_confidence, rel.confidence)
           st1 == IF TransitiveAdmits(new_confidence, c.confidence_threshold)
                  THEN Emit(st, Candidate(c.term_id, rel.target_term_id, rel.relation_type,
                                          round3(new_confidence), "transitive", depth),
                            Append(path, rel))
                  ELSE st
           st2 == traverse(c, rel.target_term_id, depth + 1, new_confidence,
                           Append(path, rel), st1)
       IN  traverse_loop(c, relations, i + 1, depth, accumulated_confidence, path, st2)

_apply_transitive_rule(c, st) == traverse(c, c.term_id, 1, ONE, <<>>, st)

\* an equivalence test without the guard against the seed
EquivalenceAdmits_unguarded(target_term_id, term_id, new_confidence, confidence_threshold) ==
  new_confidence >= confidence_threshold

\* the test that admits an equivalence candidate
EquivalenceAdmits(target_term_id, term_id, new_confidence, confidence_threshold) ==
  target_term_id # term_id /\ new_confidence >= confidence_threshold

RECURSIVE find_equivalents(_, _, _, _, _, _)
RECURSIVE find_equivalents_loop(_, _, _, _, _, _, _)

find_equivalents(c, current_id, depth, accumulated_confidence, path, st) ==
  IF TooDeep(depth, c.max_depth) \/ current_id \in st.visited THEN st
  ELSE find_equivalents_loop(c, outgoing(c.store, current_id, {"equivalent"}), 1,
                             depth, accumulated_confidence, path,
                             Query([st EXCEPT !.visited = Visit(@, current_id)],
                                   "equivalence", current_id, depth,
                                   accumulated_confidence))

find_equivalents_loop(c, relations, i, depth, accumulated_confidence, path, st) ==
  IF i > Len(relations) THEN st
  ELSE LET rel == relations[i]
           new_confidence == Decayed(accumulated_confidence, rel.confidence)
           st1 == IF EquivalenceAdmits(rel.target_term_id, c.term_id,
                                       new_confidence, c.confidence_threshold)
                  THEN Emit(st, Candidate(c.term_id, rel.target_term_id, "equivalent",
                                          round3(new_confidence), "equivalence", depth),
                            Append(path, rel))
                  ELSE st
           st2 == find_equivalents(c, rel.target_term_id, depth + 1, new_confidence,
                                   Append(path, rel), st1)
       IN  find_equivalents_loop(c, relations, i + 1, depth, accumulated_confidence, path, st2)

_apply_equivalence_rule(c, st) == find_equivalents(c, c.term_id, 1, ONE, <<>>, st)

\* a symmetric item whose confidence is decayed like a traversal step
SymmetricItem_decayed(term_id, rel) ==
  Candidate(term_id, rel.source_term_id, rel.relation_type,
            Mul(rel.confidence, CONFIDENCE_DECAY), "symmetric", 1)

\* the item the symmetric rule builds from an incoming relation
SymmetricItem(term_id, rel) ==
  Candidate(term_id, rel.source_term_id, rel.relation_type, rel.confidence, "symmetric", 1)

RECURSIVE symmetric_loop(_, _, _, _)
symmetric_loop(c, inverse_relations, i, st) ==
  IF i > Len(inverse_relations) THEN st
  ELSE LET rel == inverse_relations[i]
           st1 == IF rel.confidence >= c.confidence_threshold
                  THEN Emit(st, SymmetricItem(c.term_id, rel), <<rel>>)
                  ELSE st
       IN  symmetric_loop(c, inverse_relations, i + 1, st1)

\* a symmetric rule that applies the depth test of the traversals
_apply_symmetric_rule_bounded(c, st) ==
  IF TooDeep(1, c.max_depth) THEN st
  ELSE symmetric_loop(c, incoming(c.store, c.term_id, symmetric_relations), 1,
                      Query(st, "symmetric", c.term_id, 1, ONE))

_apply_symmetric_rule(c, st) ==
  symmetric_loop(c, incoming(c.store, c.term_id, symmetric_relations), 1,
                 Query(st, "symmetric", c.term_id, 1, ONE))

\* an inverse item that points back at the seed
InverseItem_unturned(term_id, rel) ==
  Candidate(term_id, rel.target_term_id, inverse_mapping[rel.relation_type],
            rel.confidence, "inverse", 1)

\* the item the inverse rule builds from an incoming relation of a mapped type
InverseItem(term_id, rel) ==
  Candidate(term_id, rel.source_term_id, inverse_mapping[rel.relation_type],
            rel.confidence, "inverse", 1)

RECURSIVE inverse_loop(_, _, _, _)
inverse_loop(c, inverse_relations, i, st) ==
  IF i > Len(inverse_relations) THEN st
  ELSE LET rel == inverse_relations[i]
           st1 == IF /\ rel.relation_type \in DOMAIN inverse_mapping
                     /\ rel.confidence >= c.confidence_threshold
                  THEN Emit(st, InverseItem(c.term_id, rel), <<rel>>)
                  ELSE st
       IN  inverse_loop(c, inverse_relations, i + 1, st1)

_apply_inverse_rule(c, st) ==
  inverse_loop(c, incoming(c.store, c.term_id, RelationTypes), 1,
               Query(st, "inverse", c.term_id, 1, ONE))

\* self.reasoning_rules[rule_name](term_id, max_depth, confidence_threshold, visited)
reasoning_rules(rule_name, c, st) ==
  CASE rule_name = "transitive" -> _apply_transitive_rule(c, st)
    [] rule_name = "symmetric" -> _apply_symmetric_rule(c, st)
    [] rule_name = "equivalence" -> _apply_equivalence_rule(c, st)
    [] rule_name = "inverse" -> _apply_inverse_rule(c, st)

(***************************************************************************)
(* infer_relations: the rule loop, the deduplication and the sort.         *)
(***************************************************************************)
\* rule_results of one rule: what it appended to its own, fresh `inferred` list
RuleState(rule_name, c, visited) ==
  reasoning_rules(rule_name, c,
                  [inferred |-> <<>>, visited |-> visited, paths |-> <<>>,
                   reads |-> <<>>])

RECURSIVE run_rules(_, _, _, _)

\* a rule loop that an unregistered name ends
run_rules_halting(c, rules, i, st) ==
  IF i > Len(rules) \/ rules[i] \notin RuleNames THEN st
  ELSE LET r == RuleState(rules[i], c, st.visited)
       IN  run_rules(c, rules, i + 1,
                     [inferred |-> st.inferred \o r.inferred,
                      visited |-> r.visited,
                      paths |-> st.paths \o r.paths,
                      reads |-> st.reads \o r.reads])

run_rules(c, rules, i, st) ==
  IF i > Len(rules) THEN st
  ELSE IF rules[i] \in RuleNames
       THEN LET r == RuleState(rules[i], c, st.visited)
            IN  run_rules(c, rules, i + 1,
                          [inferred |-> st.inferred \o r.inferred,
                           visited |-> r.visited,
                           paths |-> st.paths \o r.paths,
                           reads |-> st.reads \o r.reads])
       ELSE run_rules(c, rules, i + 1, st)

\* the state of infer_relations after the loop over the rules
collect(c, rules) ==
  run_rules(c, rules, 1,
            [inferred |-> <<>>, visited |-> {}, paths |-> <<>>, reads |-> <<>>])

Key(item) == <<item.target_term_id, item.relation_type>>

\* a deduplication that replaces the kept item by a lower one
Better_lower(item, kept) == item.confidence < kept.confidence

\* item['confidence'] > unique_inferred[key]['confidence']
Better(item, kept) == item.confidence > kept.confidence

RECURSIVE unique_loop(_, _, _)
unique_loop(items, i, unique_inferred) ==
  IF i > Len(items) THEN unique_inferred
  ELSE LET item == items[i]
           hit == {j \in 1..Len(unique_inferred) : Key(unique_inferred[j]) = Key(item)}
       IN  IF hit = {}
           THEN unique_loop(items, i + 1, Append(unique_inferred, item))
           ELSE LET j == CHOOSE k \in hit : TRUE
                IN  IF Better(item, unique_inferred[j])
                    THEN unique_loop(items, i + 1, [unique_inferred EXCEPT ![j] = item])
                    ELSE unique_loop(items, i + 1, unique_inferred)

\* unique_inferred.values(): one item per key, in order of the key's first insertion
deduplicate(items) == unique_loop(items, 1, <<>>)

\* a sort without reverse=True
StaysAhead_ascending(kept, item) == kept.confidence <= item.confidence

\* reverse=True on key confidence: kept stays ahead of a later item unless
\* the later item's confidence is strictly greater
StaysAhead(kept, item) == kept.confidence >= item.confidence

RECURSIVE insert_sorted(_, _)
insert_sorted(sorted_items, item) ==
  IF sorted_items = <<>> THEN <<item>>
  ELSE IF StaysAhead(Head(sorted_items), item)
       THEN <<Head(sorted_items)>> \o insert_sorted(Tail(sorted_items), item)
       ELSE <<item>> \o sorted_items

RECURSIVE sort_loop(_, _, _)
sort_loop(items, i, acc) ==
  IF i > Len(items) THEN acc ELSE sort_loop(items, i + 1, insert_sorted(acc, items[i]))

\* sorted(items, key=confidence, reverse=True): stable, descending
sorted_by_confidence(items) == sort_loop(items, 1, <<>>)

Context(db, term_id, max_depth, confidence_threshold) ==
  [store |-> db, term_id |-> term_id, max_depth |-> max_depth,
   confidence_threshold |-> confidence_threshold]

infer_relations(db, term_id, rules, max_depth, confidence_threshold) ==
  sorted_by_confidence(deduplicate(
    collect(Context(db, term_id, max_depth, confidence_threshold), rules).inferred))

(***************************************************************************)
(* State machine.                                                          *)
(***************************************************************************)
NoRequest ==
  [term_id |-> "", rules_is_none |-> FALSE, rules |-> <<>>, max_depth |-> 0,
   confidence_threshold |-> 0, direction |-> ""]

\* the two calls of the stepwise machine below
CallIds == {1, 2}

\* the locals of one infer_relations call that has not started
IdleCall ==
  [pc |-> "idle", term_id |-> "", rules |-> <<>>, max_depth |-> 0,
   confidence_threshold |-> 0, i |-> 1, stack |-> <<>>, visited |-> {},
   inferred |-> <<>>, reads |-> <<>>, overlapped |-> FALSE, failures |-> 0,
   response |-> <<>>]

\* the API before its first request: ids and created_by hold the id and the
\* created_by column of the row at the same position of store, next_id is the
\* number of uuid4 values drawn so far plus one
NoApi ==
  [ids |-> <<>>, created_by |-> <<>>, next_id |-> 1,
   op |-> "", user |-> "", source_term_id |-> "", target_term_id |-> "",
   relation_type |-> "", confidence |-> 0, relation_id |-> 0,
   status |-> 0, existing |-> FALSE, body_id |-> 0, body_confidence |-> 0,
   body_created_by |-> ""]

Init ==
  /\ store = <<>>
  /\ pc = "idle"
  /\ request = NoRequest
  /\ inferred = <<>>
  /\ paths = <<>>
  /\ reads = <<>>
  /\ response = <<>>
  /\ calls = [k \in CallIds |-> IdleCall]
  /\ api = NoApi

\* ReasoningEngine.create_relation under the uq_term_relations constraint
CreateRelation(source_term_id, target_term_id, relation_type, confidence) ==
  /\ pc = "idle"
  /\ \A k \in CallIds : calls[k].pc = "idle"
  /\ Len(store) < MaxEdges
  /\ \A i \in 1..Len(store) :
        ~ /\ store[i].source_term_id = source_term_id
          /\ store[i].target_term_id = target_term_id
          /\ store[i].relation_type = relation_type
  /\ store' = Append(store, Relation(source_term_id, target_term_id,
                                      relation_type, confidence))
  /\ UNCHANGED <<pc, request, inferred, paths, reads, response, calls, api>>

\* a call that writes the relations it derived to the term_relations table
InferRelations_persisting(term_id, rules, max_depth, confidence_threshold) ==
  /\ pc = "idle"
  /\ request' = [term_id |-> term_id, rules_is_none |-> FALSE, rules |-> rules,
                 max_depth |-> max_depth,
                 confidence_threshold |-> confidence_threshold, direction |-> ""]
  /\ LET st == collect(Context(store, term_id, max_depth, confidence_threshold), rules)
     IN  /\ inferred' = st.inferred
         /\ paths' = st.paths
         /\ reads' = st.reads
  /\ response' = sorted_by_confidence(deduplicate(inferred'))
  /\ pc' = "returned"
  /\ store' = store \o [n \in 1..Len(response') |->
                          Relation(response'[n].source_term_id, response'[n].target_term_id,
                                   response'[n].relation_type, response'[n].confidence)]
  /\ UNCHANGED <<calls, api>>

\* ReasoningEngine.infer_relations called on a fresh engine with a rule list
InferRelations(term_id, rules, max_depth, confidence_threshold) ==
  /\ pc = "idle"
  /\ request' = [term_id |-> term_id, rules_is_none |-> FALSE, rules |-> rules,
                 max_depth |-> max_depth,
                 confidence_threshold |-> confidence_threshold, direction |-> ""]
  /\ LET st == collect(Context(store, term_id, max_depth, confidence_threshold), rules)
     IN  /\ inferred' = st.inferred
         /\ paths' = st.paths
         /\ reads' = st.reads
  /\ response' = sorted_by_confidence(deduplicate(inferred'))
  /\ pc' = "returned"
  /\ UNCHANGED <<store, calls, api>>

\* list(self.reasoning_rules.keys())
default_rules == RegistryOrder

\* ReasoningEngine.infer_relations called without rules (rules is None)
InferRelationsDefault(term_id, max_depth, confidence_threshold) ==
  /\ pc = "idle"
  /\ request' = [term_id |-> term_id, rules_is_none |-> TRUE, rules |-> default_rules,
                 max_depth |-> max_depth,
                 confidence_threshold |-> confidence_threshold, direction |-> ""]
  /\ LET st == collect(Context(store, term_id, max_depth, confidence_threshold),
                       default_rules)
     IN  /\ inferred' = st.inferred
         /\ paths' = st.paths
         /\ reads' = st.reads
  /\ response' = sorted_by_confidence(deduplicate(inferred'))
  /\ pc' = "returned"
  /\ UNCHANGED <<store, calls, api>>

Directions == {"outgoing", "incoming", "both"}

\* ReasoningEngine.get_term_relations: the rows as the queries return them
get_term_relations(db, term_id, direction) ==
  IF direction = "outgoing"
  THEN SelectSeq(db, LAMBDA r : r.source_term_id = term_id)
  ELSE IF direction = "incoming"
  THEN SelectSeq(db, LAMBDA r : r.target_term_id = term_id)
  ELSE SelectSeq(db, LAMBDA r : r.source_term_id = term_id)
         \o SelectSeq(db, LAMBDA r : r.target_term_id = term_id)

\* ReasoningEngine.get_term_relations called on a fresh engine
GetTermRelations(term_id, direction) ==
  /\ pc = "idle"
  /\ request' = [NoRequest EXCEPT !.term_id = term_id, !.direction = direction]
  /\ response' = get_term_relations(store, term_id, direction)
  /\ pc' = "listed"
  /\ UNCHANGED <<store, inferred, paths, reads, calls, api>>

\* the caller has consumed the list; the derived relations are discarded
Discard ==
  /\ pc \in {"returned", "listed"}
  /\ pc' = "idle"
  /\ request' = NoRequest
  /\ inferred' = <<>>
  /\ paths' = <<>>
  /\ reads' = <<>>
  /\ response' = <<>>
  /\ UNCHANGED <<store, calls, api>>

Next ==
  \/ \E r \in RelationInputs :
        CreateRelation(r.source_term_id, r.target_term_id, r.relation_type, r.confidence)
  \/ \E term_id \in Terms, rules \in RuleLists, max_depth \in 0..MaxDepth,
        confidence_threshold \in Thresholds :
        InferRelations(term_id, rules, max_depth, confidence_threshold)
  \/ \E term_id \in Terms, rules \in WideRuleLists, max_depth \in WideDepths,
        confidence_threshold \in WideThresholds :
        InferRelations(term_id, rules, max_depth, confidence_threshold)
  \/ \E term_id \in Terms, max_depth \in 0..MaxDepth, confidence_threshold \in Thresholds :
        InferRelationsDefault(term_id, max_depth, confidence_threshold)
  \/ \E term_id \in Terms, direction \in Directions :
        GetTermRelations(term_id, direction)
  \/ Discard

Spec == Init /\ [][Next]_vars

(***************************************************************************)
(* Calls over larger graphs: the table already holds up to MaxGraphEdges   *)
(* relations, created earlier in any order, when the calls are made.       *)
(***************************************************************************)
\* two routes from A to C and from A to B, of different lengths, once as
\* equivalent and once as broader relations
GraphRelationInputs ==
  { Relation("A", "B", "equivalent", 600000),
    Relation("B", "C", "equivalent", 1000000),
    Relation("A", "C", "equivalent", 1000000),
    Relation("C", "B", "equivalent", 1000000),
    Relation("A", "B", "broader", 600000),
    Relation("B", "C", "broader", 1000000),
    Relation("A", "C", "broader", 1000000),
    Relation("C", "B", "broader", 1000000) }

\* the tables of at most MaxGraphEdges rows, no two rows alike, in every
\* order of creation
GraphStores ==
  {db \in UNION {[1..n -> GraphRelationInputs] : n \in 0..MaxGraphEdges} :
     \A i, j \in 1..Len(db) : db[i] = db[j] => i = j}

GraphRuleLists == {<<"equivalence">>, <<"transitive">>, RegistryOrder}

InitGraph ==
  /\ store \in GraphStores
  /\ pc = "idle"
  /\ request = NoRequest
  /\ inferred = <<>>
  /\ paths = <<>>
  /\ reads = <<>>
  /\ response = <<>>
  /\ calls = [k \in CallIds |-> IdleCall]
  /\ api = NoApi

NextGraph ==
  \/ \E rules \in GraphRuleLists, max_depth \in 1..(MaxDepth + 1),
        confidence_threshold \in StepThresholds :
        InferRelations("A", rules, max_depth, confidence_threshold)
  \/ Discard

SpecGraph == InitGraph /\ [][NextGraph]_vars

(***************************************************************************)
(* The same call, one store query per step.  Each call k holds the locals  *)
(* of its own infer_relations frame in calls[k]: the rule index i, the     *)
(* visited set, the inferred list, and the stack of traverse /             *)
(* find_equivalents frames, each frame being the `relations` it queried,   *)
(* the index j of the next relation of its for loop, its depth and its     *)
(* accumulated confidence.  Calls of different requests run on different   *)
(* engines (get_reasoning_engine) over the same table; relations are       *)
(* created between calls, not while one runs.  reads, overlapped and       *)
(* failures are history: the queries of the call, whether the call took a  *)
(* step while another call was between two of its own queries, and how     *)
(* many of its queries the store failed.                                   *)
(***************************************************************************)
\* the relations a client may create before stepwise calls: chains, a cycle
\* and a self-loop of the types the two traversals follow
StepRelationInputs ==
  { Relation("A", "B", "broader", 900000),
    Relation("B", "C", "broader", 900000),
    Relation("B", "A", "related", 900000),
    Relation("A", "B", "equivalent", 900000),
    Relation("B", "A", "equivalent", 1000000),
    Relation("A", "A", "equivalent", 1000000) }

StepRuleLists ==
  { <<"transitive", "hierarchy", "inverse">>, <<"equivalence", "transitive">>,
    <<"symmetric", "equivalence">>, RegistryOrder }


\* the relation types a recursive rule follows
followed(rule_name) ==
  IF rule_name = "transitive" THEN transitive_relations ELSE {"equivalent"}

\* traverse(current_id, depth, accumulated_confidence) or
\* find_equivalents(...) up to and including its query
enter(db, call, rule_name, current_id, depth, accumulated_confidence) ==
  IF TooDeep(depth, call.max_depth) \/ current_id \in call.visited THEN call
  ELSE [call EXCEPT
          !.visited = Visit(@, current_id),
          !.reads = Append(@, [rule |-> rule_name, term_id |-> current_id,
                               depth |-> depth,
                               accumulated_confidence |-> accumulated_confidence]),
          !.stack = Append(@, [rule |-> rule_name,
                               relations |-> outgoing(db, current_id, followed(rule_name)),
                               j |-> 1, depth |-> depth,
                               accumulated_confidence |-> accumulated_confidence])]

\* the rule has returned when no frame is left: for rule_name in rules goes on
rule_done(call) ==
  IF call.stack = <<>> THEN [call EXCEPT !.i = @ + 1] ELSE call

\* the body of `for rule_name in rules` up to the first query of the rule;
\* the symmetric and the inverse rule make their only query and return
start_rule(db, call) ==
  LET rule_name == call.rules[call.i]
  IN  IF rule_name \notin RuleNames THEN [call EXCEPT !.i = @ + 1]
      ELSE IF rule_name \in {"symmetric", "inverse"}
      THEN LET r == RuleState(rule_name,
                              Context(db, call.term_id, call.max_depth,
                                      call.confidence_threshold),
                              call.visited)
           IN  [call EXCEPT !.inferred = @ \o r.inferred,
                            !.reads = @ \o r.reads,
                            !.i = @ + 1]
      ELSE rule_done(enter(db, call, rule_name, call.term_id, 1, ONE))

\* one turn of `for rel in relations` of the innermost frame, up to the query
\* of the recursive call it makes; a finished loop returns to the caller
loop_step(db, call) ==
  LET top == Len(call.stack)
      frame == call.stack[top]
  IN  IF frame.j > Len(frame.relations)
      THEN rule_done([call EXCEPT !.stack = SubSeq(@, 1, top - 1)])
      ELSE LET rel == frame.relations[frame.j]
               new_confidence == Decayed(frame.accumulated_confidence, rel.confidence)
               admitted ==
                 IF frame.rule = "transitive"
                 THEN TransitiveAdmits(new_confidence, call.confidence_threshold)
                 ELSE EquivalenceAdmits(rel.target_term_id, call.term_id,
                                        new_confidence, call.confidence_threshold)
               item ==
                 Candidate(call.term_id, rel.target_term_id,
                           IF frame.rule = "transitive" THEN rel.relation_type
                                                        ELSE "equivalent",
                           round3(new_confidence), frame.rule, frame.depth)
               call1 == [call EXCEPT
                           !.inferred = IF admitted THEN Append(@, item) ELSE @,
                           !.stack[top].j = @ + 1]
           IN  enter(db, call1, frame.rule, rel.target_term_id, frame.depth + 1,
                     new_confidence)

\* another call has made a query and has not returned
Amid(k) ==
  \E other \in CallIds \ {k} :
     calls[other].pc = "running" /\ calls[other].reads # <<>>

\* a call that starts from the visited set the other calls have built
Begin_reusing(k, term_id, rules, max_depth, confidence_threshold) ==
  /\ calls[k].pc = "idle"
  /\ calls' = [calls EXCEPT ![k] =
                 [IdleCall EXCEPT !.pc = "running", !.term_id = term_id,
                                  !.rules = rules, !.max_depth = max_depth,
                                  !.confidence_threshold = confidence_threshold,
                                  !.visited = UNION {calls[other].visited :
                                                       other \in CallIds \ {k}}]]
  /\ UNCHANGED <<store, pc, request, inferred, paths, reads, response, api>>

\* infer_relations entered on a fresh engine: inferred = [], visited = set()
Begin(k, term_id, rules, max_depth, confidence_threshold) ==
  /\ calls[k].pc = "idle"
  /\ calls' = [calls EXCEPT ![k] =
                 [IdleCall EXCEPT !.pc = "running", !.term_id = term_id,
                                  !.rules = rules, !.max_depth = max_depth,
                                  !.confidence_threshold = confidence_threshold]]
  /\ UNCHANGED <<store, pc, request, inferred, paths, reads, response, api>>

\* the call runs up to its next query of the store
Step(k) ==
  /\ calls[k].pc = "running"
  /\ calls[k].stack # <<>> \/ calls[k].i <= Len(calls[k].rules)
  /\ LET call == [calls[k] EXCEPT !.overlapped = @ \/ Amid(k)]
     IN  calls' = [calls EXCEPT ![k] =
                     IF call.stack = <<>> THEN start_rule(store, call)
                                          ELSE loop_step(store, call)]
  /\ UNCHANGED <<store, pc, request, inferred, paths, reads, response, api>>

\* the loop over the rules is over: deduplicate, sort and return
Return(k) ==
  /\ calls[k].pc = "running"
  /\ calls[k].stack = <<>>
  /\ calls[k].i > Len(calls[k].rules)
  /\ calls' = [calls EXCEPT ![k].pc = "returned",
                            ![k].response =
                               sorted_by_confidence(deduplicate(calls[k].inferred))]
  /\ UNCHANGED <<store, pc, request, inferred, paths, reads, response, api>>

\* one call, step by step
NextCall ==
  \/ \E r \in StepRelationInputs :
        CreateRelation(r.source_term_id, r.target_term_id, r.relation_type, r.confidence)
  \/ \E term_id \in Terms, rules \in StepRuleLists, max_depth \in 0..(MaxDepth + 1),
        confidence_threshold \in StepThresholds :
        Begin(1, term_id, rules, max_depth, confidence_threshold)
  \/ Step(1)
  \/ Return(1)

\* a call is synchronous code on its own thread: once started it keeps
\* running until it returns
SpecCall ==
  /\ Init
  /\ [][NextCall]_vars
  /\ WF_vars(Step(1)) /\ WF_vars(Return(1))

\* the rule lists of two calls that run at the same time
PairRuleLists ==
  { <<"equivalence", "transitive">>, <<"symmetric", "hierarchy", "transitive">> }

\* two calls whose steps interleave in every order
NextSteps ==
  \/ \E r \in StepRelationInputs :
        CreateRelation(r.source_term_id, r.target_term_id, r.relation_type, r.confidence)
  \/ \E k \in CallIds, term_id \in Terms, rules \in PairRuleLists :
        Begin(k, term_id, rules, MaxDepth, 0)
  \/ \E k \in CallIds : Step(k)
  \/ \E k \in CallIds : Return(k)

SpecSteps == Init /\ [][NextSteps]_vars

\* the call as it stands when its next query is issued
advance(db, call) ==
  IF call.stack = <<>> THEN start_rule(db, call) ELSE loop_step(db, call)

\* the next step of call k sends a query to the store
QueryDue(k) ==
  /\ calls[k].pc = "running"
  /\ calls[k].stack # <<>> \/ calls[k].i <= Len(calls[k].rules)
  /\ Len(advance(store, calls[k]).reads) > Len(calls[k].reads)

\* a call in which a failed query ends the rule and the rule loop goes on
QueryFails_swallowed(k) ==
  /\ QueryDue(k)
  /\ calls' = [calls EXCEPT ![k] =
                 [advance(store, calls[k]) EXCEPT !.failures = @ + 1,
                                                  !.stack = <<>>,
                                                  !.i = calls[k].i + 1]]
  /\ UNCHANGED <<store, pc, request, inferred, paths, reads, response, api>>

\* self.db.query(...).all() raises: nothing in the rules or in
\* infer_relations catches it, every frame is left and the caller gets the
\* exception instead of a list
QueryFails(k) ==
  /\ QueryDue(k)
  /\ calls' = [calls EXCEPT ![k] =
                 [advance(store, calls[k]) EXCEPT !.failures = @ + 1,
                                                  !.stack = <<>>,
                                                  !.pc = "failed"]]
  /\ UNCHANGED <<store, pc, request, inferred, paths, reads, response, api>>

\* one call over a store whose queries may fail
NextFail ==
  \/ \E r \in StepRelationInputs :
        CreateRelation(r.source_term_id, r.target_term_id, r.relation_type, r.confidence)
  \/ \E term_id \in Terms, rules \in StepRuleLists, max_depth \in 0..(MaxDepth + 1),
        confidence_threshold \in StepThresholds :
        Begin(1, term_id, rules, max_depth, confidence_threshold)
  \/ Step(1)
  \/ Return(1)
  \/ QueryFails(1)

SpecFail == Init /\ [][NextFail]_vars

(***************************************************************************)
(* The relation endpoints of the ontology API over the term_relations      *)
(* table. A handler is an async function without an await, so a request    *)
(* runs from its first query to its commit as one step.                    *)
(***************************************************************************)
Users == {"u1", "u2"}

\* the terms table: Term.id and Term.created_by; "D" is the id of no term
TermCreatedBy == [t \in Terms |-> IF t = "C" THEN "u2" ELSE "u1"]

ApiSources == {"A", "C", "D"}

ApiTargets == {"B", "C"}

ApiTypes == {"broader", "equivalent"}

ApiConfidences == {500000, ONE}

\* db.query(Term).filter(Term.id == term_id, Term.created_by == user).first()
\* found a term
term_found(term_id, user) ==
  term_id \in DOMAIN TermCreatedBy /\ TermCreatedBy[term_id] = user

\* a lookup that never finds the relation
existing_missed(db, source_term_id, target_term_id, relation_type) == 0

\* db.query(TermRelation).filter(source, target, type).first(): the position
\* of the row found, 0 when there is none
existing(db, source_term_id, target_term_id, relation_type) ==
  LET found == {i \in 1..Len(db) : /\ db[i].source_term_id = source_term_id
                                   /\ db[i].target_term_id = target_term_id
                                   /\ db[i].relation_type = relation_type}
  IN  IF found = {} THEN 0 ELSE CHOOSE i \in found : \A j \in found : i <= j

\* UniqueConstraint('source_term_id', 'target_term_id', 'relation_type')
\* accepts the row
uq_term_relations(db, row) ==
  \A i \in 1..Len(db) : ~ /\ db[i].source_term_id = row.source_term_id
                          /\ db[i].target_term_id = row.target_term_id
                          /\ db[i].relation_type = row.relation_type

\* the reply of a request and whether it adds a row
Outcome(status, found, insert, body_id, body_confidence, body_created_by) ==
  [status |-> status, existing |-> found, insert |-> insert, body_id |-> body_id,
   body_confidence |-> body_confidence, body_created_by |-> body_created_by]

\* the body of create_relation for one request
create_relation(user, source_term_id, target_term_id, relation_type, confidence) ==
  IF ~term_found(source_term_id, user) \/ ~term_found(target_term_id, user)
  THEN Outcome(404, FALSE, FALSE, 0, 0, "")
  ELSE LET e == existing(store, source_term_id, target_term_id, relation_type)
           relation == Relation(source_term_id, target_term_id, relation_type, confidence)
       IN  IF e # 0
           THEN Outcome(201, TRUE, FALSE, api.ids[e], store[e].confidence,
                        api.created_by[e])
           ELSE IF ~uq_term_relations(store, relation)
           THEN Outcome(500, FALSE, FALSE, 0, 0, "")
           ELSE Outcome(201, FALSE, TRUE, api.next_id, confidence, user)

\* POST /ontology/relations
PostRelation(user, source_term_id, target_term_id, relation_type, confidence) ==
  LET o == create_relation(user, source_term_id, target_term_id, relation_type,
                           confidence)
  IN  /\ o.insert => (Len(store) < MaxEdges /\ api.next_id <= MaxIds)
      /\ store' = IF o.insert
                  THEN Append(store, Relation(source_term_id, target_term_id,
                                              relation_type, confidence))
                  ELSE store
      /\ api' = [ids |-> IF o.insert THEN Append(api.ids, api.next_id) ELSE api.ids,
                 created_by |-> IF o.insert THEN Append(api.created_by, user)
                                ELSE api.created_by,
                 next_id |-> IF o.insert THEN api.next_id + 1 ELSE api.next_id,
                 op |-> "create", user |-> user,
                 source_term_id |-> source_term_id, target_term_id |-> target_term_id,
                 relation_type |-> relation_type, confidence |-> confidence,
                 relation_id |-> 0, status |-> o.status, existing |-> o.existing,
                 body_id |-> o.body_id, body_confidence |-> o.body_confidence,
                 body_created_by |-> o.body_created_by]
      /\ UNCHANGED <<pc, request, inferred, paths, reads, response, calls>>

\* the sequence without its element at position i
Without(seq, i) == SubSeq(seq, 1, i - 1) \o SubSeq(seq, i + 1, Len(seq))

\* db.query(TermRelation).filter(id == relation_id, created_by == user).first():
\* the position of the row found, 0 when there is none
relation_found(relation_id, user) ==
  LET found == {i \in 1..Len(store) : /\ api.ids[i] = relation_id
                                      /\ api.created_by[i] = user}
  IN  IF found = {} THEN 0 ELSE CHOOSE i \in found : \A j \in found : i <= j

\* DELETE /ontology/relations/{relation_id}
DeleteRelation(user, relation_id) ==
  LET e == relation_found(relation_id, user)
  IN  /\ store' = IF e = 0 THEN store ELSE Without(store, e)
      /\ api' = [ids |-> IF e = 0 THEN api.ids ELSE Without(api.ids, e),
                 created_by |-> IF e = 0 THEN api.created_by
                                ELSE Without(api.created_by, e),
                 next_id |-> api.next_id,
                 op |-> "delete", user |-> user,
                 source_term_id |-> "", target_term_id |-> "",
                 relation_type |-> "", confidence |-> 0,
                 relation_id |-> relation_id,
                 status |-> IF e = 0 THEN 404 ELSE 204, existing |-> FALSE,
                 body_id |-> 0, body_confidence |-> 0, body_created_by |-> ""]
      /\ UNCHANGED <<pc, request, inferred, paths, reads, response, calls>>

NextApi ==
  \/ \E user \in Users, source_term_id \in ApiSources, target_term_id \in ApiTargets,
        relation_type \in ApiTypes, confidence \in ApiConfidences :
        PostRelation(user, source_term_id, target_term_id, relation_type, confidence)
  \/ \E user \in Users, relation_id \in 1..MaxIds : DeleteRelation(user, relation_id)

SpecApi == Init /\ [][NextApi]_vars

(***************************************************************************)
(* Properties of infer_relations.                                          *)
(***************************************************************************)
Returned == pc = "returned"

Entries == 1..Len(response)

Produced == 1..Len(inferred)

\* C1: threshold is a hard filter: no returned relation reports a confidence
\* strictly below the confidence threshold of the call.
C1_ThresholdHardFilter ==
  Returned =>
    \A n \in Entries : response[n].confidence >= request.confidence_threshold

\* C2: dedup keeps the max: the returned list has at most one entry per
\* (target_term_id, relation_type) and that entry carries the highest
\* confidence among the candidates of that pair produced in the call.
C2_DedupKeepsMax ==
  Returned =>
    /\ \A m, n \in Entries : Key(response[m]) = Key(response[n]) => m = n
    /\ \A n \in Entries :
          /\ \E k \in Produced : /\ Key(inferred[k]) = Key(response[n])
                                 /\ inferred[k].confidence = response[n].confidence
          /\ \A k \in Produced : Key(inferred[k]) = Key(response[n])
                                   => inferred[k].confidence <= response[n].confidence

\* two candidates of one pair with different confidences were produced
C2_Witness ==
  /\ Returned
  /\ \E j, k \in Produced : /\ Key(inferred[j]) = Key(inferred[k])
                             /\ inferred[j].confidence < inferred[k].confidence
                             /\ inferred[j].rule # inferred[k].rule

\* C3: the returned list is sorted by confidence, highest first, and nothing
\* is cut off: every pair that has a candidate has its entry in the list.
C3_SortedNoTruncation ==
  Returned =>
    /\ \A n \in Entries : n < Len(response)
                            => response[n].confidence >= response[n + 1].confidence
    /\ {Key(inferred[k]) : k \in Produced} = {Key(response[n]) : n \in Entries}

\* a returned list of three entries whose first candidate was not the highest
C3_Witness ==
  /\ Returned
  /\ Len(response) >= 3
  /\ inferred[1].confidence < response[1].confidence
  /\ response[1].confidence > response[Len(response)].confidence

\* the context of the call that has returned
Call == Context(store, request.term_id, request.max_depth, request.confidence_threshold)

\* what a rule produces when it is the only rule of the call
Alone(rule_name) ==
  RuleState(rule_name, Call, {}).inferred

\* what a rule contributed to the call that has returned
Contribution(rule_name) == SelectSeq(inferred, LAMBDA item : item.rule = rule_name)

NoRepeat(rules) == \A i, j \in 1..Len(rules) : rules[i] = rules[j] => i = j

\* C4: per-rule isolation of the cycle guard: in a call with several
\* different rules, each rule contributes exactly the candidates it produces
\* when it is the only rule selected.
C4_PerRuleIsolation ==
  (Returned /\ NoRepeat(request.rules)) =>
    \A i \in 1..Len(request.rules) :
      request.rules[i] \in RuleNames
        => Contribution(request.rules[i]) = Alone(request.rules[i])

Rearrangements(rules) ==
  LET n == Len(rules)
      bijections == {f \in [1..n -> 1..n] : \A i, j \in 1..n : f[i] = f[j] => i = j}
  IN  {[i \in 1..n |-> rules[f[i]]] : f \in bijections}

Triple(item) == <<item.target_term_id, item.relation_type, item.confidence>>

Triples(items) == {Triple(items[n]) : n \in 1..Len(items)}

\* C5: rule-order independence: every permutation of the rule names of the
\* call returns the same set of (target, type, confidence) entries.
C5_RuleOrderIndependence ==
  Returned =>
    \A rules \in Rearrangements(request.rules) :
      Triples(infer_relations(store, request.term_id, rules, request.max_depth,
                              request.confidence_threshold)) = Triples(response)

Stored == 1..Len(store)

\* C6: symmetric mirror: a stored equivalent or related relation A -> B with
\* confidence c at or above the threshold makes infer(B, [symmetric]) return
\* (B, A, same type, c, symmetric, depth 1), unless another incoming relation
\* of B gives the same (A, type) pair a higher confidence.
C6_SymmetricMirror ==
  (Returned /\ request.rules = <<"symmetric">>) =>
    \A i \in Stored :
      ( /\ store[i].target_term_id = request.term_id
        /\ store[i].relation_type \in {"equivalent", "related"}
        /\ store[i].confidence >= request.confidence_threshold
        /\ ~ \E j \in Stored : /\ store[j].target_term_id = request.term_id
                               /\ store[j].source_term_id = store[i].source_term_id
                               /\ store[j].relation_type = store[i].relation_type
                               /\ store[j].confidence > store[i].confidence )
      => \E n \in Entries :
            response[n] = [source_term_id |-> request.term_id,
                           target_term_id |-> store[i].source_term_id,
                           relation_type |-> store[i].relation_type,
                           confidence |-> store[i].confidence,
                           rule |-> "symmetric", depth |-> 1]

\* infer(B, [symmetric]) has mirrored a stored relation of each symmetric type
C6_Witness ==
  /\ Returned
  /\ request.rules = <<"symmetric">>
  /\ \E m, n \in Entries : /\ response[m].relation_type = "equivalent"
                            /\ response[n].relation_type = "related"
                            /\ response[n].confidence < ONE

\* the inverse of each directional type, written out
InverseOf(relation_type) ==
  CASE relation_type = "broader" -> "narrower"
    [] relation_type = "narrower" -> "broader"
    [] relation_type = "part_of" -> "has_part"
    [] relation_type = "has_part" -> "part_of"

Directional == {"broader", "narrower", "part_of", "has_part"}

\* C7: inverse round trip: a stored relation A -> B of type broader, narrower,
\* part_of or has_part with confidence c at or above the threshold makes
\* infer(B, [inverse]) return (B, A, inverse type, c, inverse, depth 1), and
\* the inverse of the inverse type is the stored type.
C7_InverseRoundTrip ==
  (Returned /\ request.rules = <<"inverse">>) =>
    \A i \in Stored :
      ( /\ store[i].target_term_id = request.term_id
        /\ store[i].relation_type \in Directional
        /\ store[i].confidence >= request.confidence_threshold )
      => \E n \in Entries :
            /\ response[n] = [source_term_id |-> request.term_id,
                              target_term_id |-> store[i].source_term_id,
                              relation_type |-> InverseOf(store[i].relation_type),
                              confidence |-> store[i].confidence,
                              rule |-> "inverse", depth |-> 1]
            /\ inverse_mapping[response[n].relation_type] = store[i].relation_type

\* infer(B, [inverse]) has inverted a stored has_part relation
C7_Witness ==
  /\ Returned
  /\ request.rules = <<"inverse">>
  /\ \E i \in Stored : /\ store[i].relation_type = "has_part"
                        /\ store[i].target_term_id = request.term_id
  /\ \E n \in Entries : response[n].relation_type = "part_of"

\* C8: no self-loop from equivalence: no candidate of the equivalence rule,
\* hence no entry of infer(A, [equivalence]), has the seed A as its target.
C8_NoSelfLoopFromEquivalence ==
  Returned =>
    /\ \A k \in Produced : inferred[k].rule = "equivalence"
                             => inferred[k].target_term_id # request.term_id
    /\ request.rules = <<"equivalence">>
         => \A n \in Entries : response[n].target_term_id # request.term_id

\* infer(A, [equivalence]) has walked an equivalent relation that leads back
\* to A and has returned an entry
C8_Witness ==
  /\ Returned
  /\ request.rules = <<"equivalence">>
  /\ request.max_depth >= 2
  /\ \E i \in Stored : /\ store[i].relation_type = "equivalent"
                        /\ store[i].target_term_id = request.term_id
                        /\ store[i].source_term_id # request.term_id
                        /\ \E n \in Entries :
                              response[n].target_term_id = store[i].source_term_id

Recursive == {"transitive", "equivalence"}

\* the path of candidate k is the path of candidate j without its last relation
Extends(k, j) ==
  /\ inferred[k].rule = inferred[j].rule
  /\ Len(paths[k]) = Len(paths[j]) + 1
  /\ SubSeq(paths[k], 1, Len(paths[j])) = paths[j]

\* C9: decay monotonicity: a transitive or equivalence candidate at depth
\* k+1 has a confidence at most that of the candidate derived for the same
\* path cut at depth k.
C9_DecayMonotonicity ==
  Returned =>
    \A j, k \in Produced :
      (inferred[k].rule \in Recursive /\ Extends(k, j))
        => /\ inferred[k].depth = inferred[j].depth + 1
           /\ inferred[k].confidence <= inferred[j].confidence

\* a depth-2 candidate whose last relation has a higher stored confidence
\* than the first relation of its path
C9_Witness ==
  /\ Returned
  /\ \E j, k \in Produced :
        /\ inferred[k].rule \in Recursive
        /\ Extends(k, j)
        /\ inferred[k].depth = 2
        /\ paths[k][2].confidence > paths[k][1].confidence
        /\ inferred[k].confidence < inferred[j].confidence

\* C10: confidence bounds: every returned relation has a confidence in
\* [0, 1] that is at most the stored confidence of each relation on the path
\* it was built from (stored confidences are all in [0, 1]).
C10_ConfidenceBounds ==
  Returned =>
    \A n \in Entries : \A k \in Produced :
      inferred[k] = response[n]
        => /\ 0 <= response[n].confidence
           /\ response[n].confidence <= ONE
           /\ \A e \in 1..Len(paths[k]) :
                 response[n].confidence <= paths[k][e].confidence

Shown(item) ==
  <<item.target_term_id, item.relation_type, item.confidence, item.depth>>

\* the chain A -broader(0.9)-> B -broader(0.9)-> C
ChainStored ==
  /\ Len(store) = 2
  /\ {store[i] : i \in Stored} =
       {Relation("A", "B", "broader", 900000), Relation("B", "C", "broader", 900000)}

\* C11: on the chain A -broader(0.9)-> B -broader(0.9)-> C with max_depth 3
\* and threshold 0.5, the transitive rule alone from A returns exactly
\* (B, broader, 0.81, depth 1) and (C, broader, 0.6561, depth 2).
C11_ChainScenario ==
  ( /\ Returned
    /\ ChainStored
    /\ ~request.rules_is_none
    /\ request.term_id = "A"
    /\ request.rules = <<"transitive">>
    /\ request.max_depth = 3
    /\ request.confidence_threshold = 500000 )
  => /\ Len(response) = 2
     /\ {Shown(response[n]) : n \in Entries} =
          {<<"B", "broader", 810000, 1>>, <<"C", "broader", 656100, 2>>}

\* C12: a call without rules, or with an empty rule list, returns what the
\* call with all four rules returns.
C12_DefaultRuleSet ==
  (Returned /\ (request.rules_is_none \/ request.rules = <<>>))
    => response = infer_relations(store, request.term_id, RegistryOrder,
                                  request.max_depth, request.confidence_threshold)

Registered(rules) == SelectSeq(rules, LAMBDA rule_name : rule_name \in RuleNames)

\* C13: rule names outside the registry are ignored: the call returns what it
\* returns with those names removed from the rule list.
C13_UnknownRulesIgnored ==
  (Returned /\ Registered(request.rules) # request.rules) =>
    response = infer_relations(store, request.term_id, Registered(request.rules),
                               request.max_depth, request.confidence_threshold)

\* an unregistered name stands between two rules that both produced
C13_Witness ==
  /\ Returned
  /\ Len(request.rules) = 3
  /\ request.rules[2] \in UnknownRuleNames
  /\ \E j, k \in Produced : inferred[j].rule = request.rules[1]
                            /\ inferred[k].rule = request.rules[3]

Endpoint(term_id) ==
  \E i \in Stored : store[i].source_term_id = term_id \/ store[i].target_term_id = term_id

\* C14: a seed that is the endpoint of no stored relation yields the empty
\* list, whatever the rules, the depth and the threshold of the call.
C14_AbsentSeed ==
  (Returned /\ ~Endpoint(request.term_id)) => response = <<>>

\* all four rules ran at depth 2 and threshold 0 over a store of two
\* relations, none of which touches the seed
C14_Witness ==
  /\ Returned
  /\ Len(store) = 2
  /\ ~Endpoint(request.term_id)
  /\ request.rules = RegistryOrder
  /\ request.max_depth = 2
  /\ request.confidence_threshold = 0
  /\ Len(reads) = 3
  /\ response = <<>>

InvalidArgument ==
  \/ request.max_depth < 0
  \/ request.confidence_threshold < 0
  \/ request.confidence_threshold > ONE

\* C15: a call with a negative max_depth or a threshold outside [0, 1] is
\* rejected before any query reaches the store, and yields no result list.
C15_RejectsPathologicalInput ==
  InvalidArgument => (pc = "rejected" /\ reads = <<>> /\ response = <<>>)

Queries == 1..Len(reads)

\* paths[k] is a chain of stored relations that starts at the seed
ChainFromSeed(k) ==
  /\ \A e \in 1..Len(paths[k]) : \E i \in Stored : store[i] = paths[k][e]
  /\ paths[k] # <<>> => paths[k][1].source_term_id = request.term_id
  /\ \A e \in 1..(Len(paths[k]) - 1) :
        paths[k][e].target_term_id = paths[k][e + 1].source_term_id

\* C16: every candidate of the transitive and the equivalence rule, hence
\* every returned one, has 1 <= depth <= max_depth, its depth is the number of
\* stored relations on its path from the seed, and neither rule queries the
\* relations of a term at a depth above max_depth.
C16_DepthBound ==
  Returned =>
    /\ \A k \in Produced :
          inferred[k].rule \in Recursive
            => /\ 1 <= inferred[k].depth
               /\ inferred[k].depth <= request.max_depth
               /\ inferred[k].depth = Len(paths[k])
               /\ ChainFromSeed(k)
    /\ \A n \in Entries : \E k \in Produced : inferred[k] = response[n]
    /\ \A q \in Queries :
          reads[q].rule \in Recursive
            => 1 <= reads[q].depth /\ reads[q].depth <= request.max_depth

\* a returned candidate sits at depth max_depth and the store holds a
\* relation that would extend its path by one more step
C16_Witness ==
  /\ Returned
  /\ \E n \in Entries : \E i \in Stored :
        /\ response[n].rule = "transitive"
        /\ response[n].depth = request.max_depth
        /\ store[i].source_term_id = response[n].target_term_id
        /\ store[i].target_term_id \notin {request.term_id, response[n].target_term_id}
        /\ store[i].relation_type \in transitive_relations

DepthInputs == (0..MaxDepth) \cup WideDepths

\* C17: the candidates of the symmetric and of the inverse rule are the same
\* for every max_depth, 0 included; each has depth 1 and is built from one
\* stored relation that points at the seed.
C17_DepthIndependence ==
  (Returned /\ NoRepeat(request.rules)) =>
    \A rule_name \in {"symmetric", "inverse"} :
      /\ \A i \in 1..Len(request.rules) :
            request.rules[i] = rule_name
              => \A max_depth \in DepthInputs :
                    Contribution(rule_name) =
                      RuleState(rule_name,
                                Context(store, request.term_id, max_depth,
                                        request.confidence_threshold), {}).inferred
      /\ \A k \in Produced :
            inferred[k].rule = rule_name
              => /\ inferred[k].depth = 1
                 /\ Len(paths[k]) = 1
                 /\ \E i \in Stored : store[i] = paths[k][1]
                 /\ paths[k][1].target_term_id = request.term_id
                 /\ paths[k][1].source_term_id = inferred[k].target_term_id

\* both rules produced a candidate in a call with max_depth 0
C17_Witness ==
  /\ Returned
  /\ request.max_depth = 0
  /\ \E j, k \in Produced : inferred[j].rule = "symmetric" /\ inferred[k].rule = "inverse"

\* C19: infer_relations is read-only: the step that runs a call leaves the
\* stored relations as they were, so no derived relation is persisted.
C19_ReadOnly ==
  [][(pc = "idle" /\ pc' = "returned") => store' = store]_vars

\* a call over a full store has returned derived relations that the store
\* does not hold
C19_Witness ==
  /\ Returned
  /\ Len(store) = MaxEdges
  /\ response # <<>>
  /\ \A n \in Entries : \A i \in Stored :
        \/ response[n].source_term_id # store[i].source_term_id
        \/ response[n].target_term_id # store[i].target_term_id
        \/ response[n].relation_type # store[i].relation_type

RECURSIVE Closure(_)
\* the terms reachable from the terms of `seen` along stored relations
Closure(seen) ==
  LET more == seen \cup {store[i].target_term_id :
                           i \in {n \in Stored : store[n].source_term_id \in seen}}
  IN  IF more = seen THEN seen ELSE Closure(more)

QueriesOf(k, rule_name) ==
  {q \in 1..Len(calls[k].reads) : calls[k].reads[q].rule = rule_name}

\* C18: every call that has started eventually returns, and at every moment
\* the number of store queries each of its recursive rules has made is at
\* most the number of distinct terms reachable from the seed plus one.
C18_TerminatesWithBoundedReads ==
  /\ \A k \in CallIds : (calls[k].pc = "running") ~> (calls[k].pc = "returned")
  /\ [](\A k \in CallIds : \A rule_name \in Recursive :
          Cardinality(QueriesOf(k, rule_name))
            <= Cardinality(Closure({calls[k].term_id})) + 1)

\* a call has returned after a recursive rule walked a cycle of the store:
\* it queried every term that the seed reaches and came back to one of them
C18_Witness ==
  \E k \in CallIds : \E rule_name \in Recursive :
    /\ calls[k].pc = "returned"
    /\ Cardinality(Closure({calls[k].term_id})) >= 2
    /\ Cardinality(QueriesOf(k, rule_name)) = Cardinality(Closure({calls[k].term_id}))
    /\ \E i \in Stored : /\ store[i].relation_type \in followed(rule_name)
                         /\ store[i].source_term_id # calls[k].term_id
                         /\ store[i].target_term_id = calls[k].term_id

AloneState(k) ==
  collect(Context(store, calls[k].term_id, calls[k].max_depth,
                  calls[k].confidence_threshold), calls[k].rules)

\* C20: calls keep no state in common: whatever the interleaving of their
\* store queries, a call returns the list it returns when it runs alone,
\* after the queries it makes when it runs alone.
C20_CallsIndependent ==
  \A k \in CallIds :
    calls[k].pc = "returned"
      => /\ calls[k].response = sorted_by_confidence(deduplicate(AloneState(k).inferred))
         /\ calls[k].reads = AloneState(k).reads
         /\ calls[k].visited = AloneState(k).visited

\* both calls have returned a non-empty list, each took steps while the other
\* was between two queries, and both visited a common term
C20_Witness ==
  /\ \A k \in CallIds : /\ calls[k].pc = "returned"
                        /\ calls[k].overlapped
                        /\ calls[k].response # <<>>
  /\ calls[1].visited \cap calls[2].visited # {}

\* C21: a failed store query is fatal to the call: the query is not sent
\* again, the call hands no list to its caller, not even the candidates it
\* had collected, and it ends in the failure without taking another step.
C21_StoreFailureIsFatal ==
  /\ [](\A k \in CallIds :
          calls[k].failures > 0
            => /\ calls[k].failures = 1
               /\ calls[k].pc = "failed"
               /\ calls[k].response = <<>>)
  /\ [][\A k \in CallIds : calls[k].pc = "failed" => calls'[k] = calls[k]]_vars

\* a query failed after the call had collected candidates from two queries
C21_Witness ==
  \E k \in CallIds :
    /\ calls[k].pc = "failed"
    /\ calls[k].failures = 1
    /\ Len(calls[k].reads) = 3
    /\ calls[k].inferred # <<>>
    /\ calls[k].response = <<>>

Listed == pc = "listed"

\* the stored relation is one that the direction of the request asks for
Asked(rel) ==
  \/ request.direction \in {"outgoing", "both"} /\ rel.source_term_id = request.term_id
  \/ request.direction \in {"incoming", "both"} /\ rel.target_term_id = request.term_id

\* C22: get_term_relations lists exactly the stored relations that leave the
\* term (outgoing), that reach it (incoming) or that touch it (both), each
\* stored relation once, and nothing that is not stored.
C22_PassThrough ==
  Listed =>
    /\ \A i \in Stored :
          Cardinality({n \in Entries : response[n] = store[i]})
            = IF Asked(store[i]) THEN 1 ELSE 0
    /\ \A n \in Entries : \E i \in Stored : response[n] = store[i]

PathEnd(w) == IF w = <<>> THEN request.term_id ELSE w[Len(w)].target_term_id

RECURSIVE Chains(_, _)
\* the chains of at most n stored relations of the given types from the seed
Chains(types, n) ==
  IF n <= 0 THEN {<<>>}
  ELSE LET shorter == Chains(types, n - 1)
       IN  shorter \cup
           UNION {{Append(w, store[i]) :
                     i \in {m \in Stored : /\ store[m].relation_type \in types
                                           /\ store[m].source_term_id = PathEnd(w)}} :
                  w \in {v \in shorter : Len(v) = n - 1}}

RECURSIVE PathConfidence(_)
\* the product of the confidences of a chain and of one decay factor per hop
PathConfidence(w) ==
  IF w = <<>> THEN ONE
  ELSE Decayed(PathConfidence(SubSeq(w, 1, Len(w) - 1)), w[Len(w)].confidence)

\* C23: bounded equivalence closure: every term other than the seed that a
\* chain of at most max_depth stored equivalent relations reaches from the
\* seed with a decayed confidence at or above the threshold is the target of
\* a returned equivalent entry of a call with the equivalence rule alone.
C23_EquivalenceClosure ==
  (Returned /\ ~request.rules_is_none /\ request.rules = <<"equivalence">>) =>
    \A w \in Chains({"equivalent"}, request.max_depth) :
      ( /\ w # <<>>
        /\ PathEnd(w) # request.term_id
        /\ PathConfidence(w) >= request.confidence_threshold )
      => \E n \in Entries : /\ response[n].target_term_id = PathEnd(w)
                            /\ response[n].relation_type = "equivalent"

Items(items) == {items[n] : n \in 1..Len(items)}

\* the stored relations in every order in which the table may return them
StoreOrders ==
  {db \in [Stored -> Items(store)] : \A i, j \in Stored : db[i] = db[j] => i = j}

\* C24: reproducible tie-break: two calls that differ only in the order of
\* the rule names or in the order of the stored rows, and that produce the
\* same candidates, return the same entries, rule and depth included.
C24_ReproducibleTieBreak ==
  (Returned /\ NoRepeat(request.rules)) =>
    \A rules \in Rearrangements(request.rules) : \A db \in StoreOrders :
      LET other == collect(Context(db, request.term_id, request.max_depth,
                                   request.confidence_threshold), rules).inferred
      IN  Items(other) = Items(inferred)
            => Items(sorted_by_confidence(deduplicate(other))) = Items(response)

\* the stored relations of the given types that leave term_id
Leaving(term_id, types) ==
  {i \in Stored : store[i].source_term_id = term_id /\ store[i].relation_type \in types}

\* C25: transitive confidence formula: a transitive candidate built from the
\* chain e1..ek has depth k and confidence conf(e1) * ... * conf(ek) * 0.9^k,
\* and every relation read by the traversal whose accumulated confidence is
\* at or above the threshold has its candidate.
C25_TransitiveConfidence ==
  Returned =>
    /\ \A k \in Produced :
          inferred[k].rule = "transitive"
            => /\ inferred[k].depth = Len(paths[k])
               /\ inferred[k].confidence = PathConfidence(paths[k])
    /\ \A q \in Queries :
          reads[q].rule = "transitive"
            => \A i \in Leaving(reads[q].term_id, transitive_relations) :
                  Decayed(reads[q].accumulated_confidence, store[i].confidence)
                      >= request.confidence_threshold
                    => \E k \in Produced :
                          /\ inferred[k].rule = "transitive"
                          /\ inferred[k].depth = reads[q].depth
                          /\ paths[k][Len(paths[k])] = store[i]

\* every relation of paths[k] has a type of the given set
TypedPath(k, types) ==
  \A e \in 1..Len(paths[k]) : paths[k][e].relation_type \in types

\* paths[k] is one stored relation that points at the seed from the target
\* of candidate k
OneIncoming(k) ==
  /\ Len(paths[k]) = 1
  /\ \E i \in Stored : store[i] = paths[k][1]
  /\ paths[k][1].target_term_id = request.term_id
  /\ paths[k][1].source_term_id = inferred[k].target_term_id

\* C26: rule type applicability: a transitive candidate has the type of the
\* last relation of a chain from the seed whose relations are all broader,
\* narrower, part_of, has_part or related; an equivalence candidate has type
\* equivalent and a chain of equivalent relations only; a symmetric candidate
\* mirrors one stored equivalent or related relation that points at the seed
\* and has its type.
C26_RuleTypeApplicability ==
  Returned =>
    \A k \in Produced :
      /\ inferred[k].rule = "transitive"
           => /\ inferred[k].relation_type
                   \in {"broader", "narrower", "part_of", "has_part", "related"}
              /\ paths[k] # <<>>
              /\ inferred[k].relation_type = paths[k][Len(paths[k])].relation_type
              /\ inferred[k].target_term_id = paths[k][Len(paths[k])].target_term_id
              /\ ChainFromSeed(k)
              /\ TypedPath(k, {"broader", "narrower", "part_of", "has_part", "related"})
      /\ inferred[k].rule = "equivalence"
           => /\ inferred[k].relation_type = "equivalent"
              /\ paths[k] # <<>>
              /\ inferred[k].target_term_id = paths[k][Len(paths[k])].target_term_id
              /\ ChainFromSeed(k)
              /\ TypedPath(k, {"equivalent"})
      /\ inferred[k].rule = "symmetric"
           => /\ inferred[k].relation_type \in {"equivalent", "related"}
              /\ OneIncoming(k)
              /\ inferred[k].relation_type = paths[k][1].relation_type

\* the transitive rule produced a candidate from a seed that an equivalent
\* relation also leaves
C26_Witness ==
  /\ Returned
  /\ Leaving(request.term_id, {"equivalent"}) # {}
  /\ \E k \in Produced : inferred[k].rule = "transitive"

\* C27: the inverse rule emits mapped inverses only: each inverse candidate
\* comes from one stored relation X -t-> seed with t broader, narrower,
\* part_of or has_part and a confidence at or above the threshold; it has
\* target X, the inverse of t as type and the confidence of the relation;
\* relations of the other types that point at the seed give no candidate.
C27_InverseOnlyMapped ==
  Returned =>
    /\ \A k \in Produced :
          inferred[k].rule = "inverse"
            => /\ OneIncoming(k)
               /\ paths[k][1].relation_type \in Directional
               /\ inferred[k].relation_type = InverseOf(paths[k][1].relation_type)
               /\ inferred[k].confidence = paths[k][1].confidence
               /\ inferred[k].confidence >= request.confidence_threshold
               /\ inferred[k].depth = 1
    /\ Cardinality({k \in Produced : inferred[k].rule = "inverse"})
         <= Cardinality({q \in Queries : reads[q].rule = "inverse"})
              * Cardinality({i \in Stored :
                               /\ store[i].target_term_id = request.term_id
                               /\ store[i].relation_type \in Directional
                               /\ store[i].confidence >= request.confidence_threshold})

\* the inverse rule ran over a seed that a mapped and an unmapped relation
\* point at, and produced one candidate
C27_Witness ==
  /\ Returned
  /\ request.rules = <<"inverse">>
  /\ \E i, j \in Stored :
        /\ store[i].target_term_id = request.term_id
        /\ store[j].target_term_id = request.term_id
        /\ store[i].relation_type \in Directional
        /\ store[j].relation_type \in {"equivalent", "related"}
  /\ Len(inferred) = 1

\* C28: no re-entry: within a call no term is expanded twice by a recursive
\* rule, and every relation the transitive traversal reads at an expanded
\* term, whether it leads to a new term, to a visited one or back to its own
\* source, has its candidate at the depth of that expansion when the
\* accumulated confidence is at or above the threshold.
C28_NoReEntry ==
  Returned =>
    /\ \A q1, q2 \in Queries :
          /\ reads[q1].rule \in Recursive
          /\ reads[q1].rule = reads[q2].rule
          /\ reads[q1].term_id = reads[q2].term_id
          => q1 = q2
    /\ \A q \in Queries :
          reads[q].rule = "transitive" =>
            \A i \in Leaving(reads[q].term_id,
                             {"broader", "narrower", "part_of", "has_part", "related"}) :
              Decayed(reads[q].accumulated_confidence, store[i].confidence)
                  >= request.confidence_threshold
                => \E k \in Produced :
                      /\ inferred[k].rule = "transitive"
                      /\ inferred[k].depth = reads[q].depth
                      /\ Len(paths[k]) = reads[q].depth
                      /\ paths[k][Len(paths[k])] = store[i]
                      /\ inferred[k].target_term_id = store[i].target_term_id

\* a cycle of two relations led the transitive traversal back to the seed:
\* the seed is the target of a candidate of depth 2 and was expanded once
C28_Witness ==
  /\ Returned
  /\ \E k \in Produced :
        /\ inferred[k].rule = "transitive"
        /\ inferred[k].depth = 2
        /\ inferred[k].target_term_id = request.term_id
  /\ Cardinality({q \in Queries : reads[q].term_id = request.term_id}) = 1

\* C29: edge-order independence: for the same stored relations, seed, rules,
\* max_depth and threshold, the call returns the same set of (target, type,
\* confidence, depth) entries in whatever order the table returns its rows.
C29_EdgeOrderIndependence ==
  Returned =>
    \A db \in StoreOrders :
      {Shown(item) : item \in Items(infer_relations(db, request.term_id, request.rules,
                                                    request.max_depth,
                                                    request.confidence_threshold))}
        = {Shown(response[n]) : n \in Entries}

StoredTriple(r) == <<r.source_term_id, r.target_term_id, r.relation_type>>

\* the (source, target, type) of the last create request
AskedTriple(a) == <<a.source_term_id, a.target_term_id, a.relation_type>>

\* both terms of the last create request exist and were created by its user
OwnTerms(a) ==
  /\ a.source_term_id \in {"A", "B", "C"}
  /\ a.target_term_id \in {"A", "B", "C"}
  /\ TermCreatedBy[a.source_term_id] = a.user
  /\ TermCreatedBy[a.target_term_id] = a.user

\* C30: stored relation uniqueness through the API: after any sequence of
\* create and delete requests no two stored relations have the same (source,
\* target, type); a create request for a stored triple leaves the table as it
\* is and answers with the stored relation and its confidence; a create
\* request is answered 404, with the table unchanged, exactly when a term of
\* the request does not exist or was created by another user, and that test
\* comes before the one for a stored triple.
C30_StoredUniqueness ==
  /\ [](/\ \A i, j \in Stored : StoredTriple(store[i]) = StoredTriple(store[j]) => i = j
        /\ api.op = "create" =>
             /\ (api.status = 404) <=> ~OwnTerms(api)
             /\ api.status \in {201, 404}
             /\ api.status = 201 =>
                  \E i \in Stored : /\ StoredTriple(store[i]) = AskedTriple(api)
                                    /\ api.ids[i] = api.body_id
                                    /\ store[i].confidence = api.body_confidence
                                    /\ api.created_by[i] = api.body_created_by)
  /\ [][api'.op = "create" =>
          /\ api'.status = 404 => store' = store
          /\ \A i \in Stored :
                (StoredTriple(store[i]) = AskedTriple(api') /\ OwnTerms(api'))
                  => /\ store' = store
                     /\ api'.status = 201
                     /\ api'.body_id = api.ids[i]
                     /\ api'.body_confidence = store[i].confidence]_vars

\* a create request for a stored triple, asking for another confidence, was
\* answered with the stored relation after a relation had been deleted
C30_Witness ==
  /\ api.op = "create"
  /\ api.existing
  /\ api.confidence # api.body_confidence
  /\ api.next_id > Len(store) + 1

====
